---- MODULE Spec2Model ----
(***************************************************************************)
(* A model of bipy.core.distance: the DistanceMatrix class (constructor,   *)
(* validation, sample_ids setter, copy, equality, label lookup) and its    *)
(* delimited-text reader (from_file) and writer (to_file).                 *)
(*                                                                         *)
(* Conventions.  A Python str is a sequence of one-character strings.  An  *)
(* ndarray is a record [shape, flat]: its shape tuple and its elements in  *)
(* row-major order.  Python's 0-based positions are 1-based here, so the   *)
(* index a label maps to is its Python index plus one.  Floats are the     *)
(* whole values 0 .. MaxVal, which numpy writes as "0.0", "1.0", ...       *)
(***************************************************************************)
EXTENDS Integers, Sequences, FiniteSets, TLC

VARIABLES
    bufs,   \* the ndarrays that exist, by identity (position in the sequence)
    dms,    \* the DistanceMatrix instances that exist: _data (a buffer
            \* identity), _sample_ids, _sample_index, and the instance copy()
            \* made it from (0: not made by copy())
    last,   \* the last operation on an instance, its arguments and outcome
    call,   \* the arguments of a call to a function of the module
    ret     \* what that call returned or raised; NoRet while it is pending

vars == <<bufs, dms, last, call, ret>>

---------------------------------------------------------------------------
(* Bounds of the model. *)

\* buffer entries are the floats 0.0 .. MaxVal.0
MaxVal == 1
\* instances that exist at once
MaxInst == 2
\* lines of an input stream given to from_file
MaxLines == 4
\* samples of a matrix that is written and read back
MaxN == 3

Values == 0 .. MaxVal

---------------------------------------------------------------------------
(* Python str operations. *)

TAB == "\t"
NL == "\n"
SP == " "

\* the characters str.strip() removes
Whitespace == {TAB, NL, SP}

RECURSIVE lstrip(_)
lstrip(s) ==
    IF s # <<>> /\ Head(s) \in Whitespace THEN lstrip(Tail(s)) ELSE s

RECURSIVE rstrip(_)
rstrip(s) ==
    IF s # <<>> /\ s[Len(s)] \in Whitespace
    THEN rstrip(SubSeq(s, 1, Len(s) - 1))
    ELSE s

\* str.strip(): leading and trailing whitespace removed
strip(s) == rstrip(lstrip(s))

\* str.startswith(p)
startswith(s, p) == Len(s) >= Len(p) /\ SubSeq(s, 1, Len(p)) = p

RECURSIVE SplitFrom(_, _, _, _)
SplitFrom(s, sep, i, cur) ==
    IF i > Len(s) THEN <<cur>>
    ELSE IF i + Len(sep) - 1 <= Len(s) /\ SubSeq(s, i, i + Len(sep) - 1) = sep
         THEN <<cur>> \o SplitFrom(s, sep, i + Len(sep), <<>>)
         ELSE SplitFrom(s, sep, i + 1, Append(cur, s[i]))

\* str.split(sep) for a non-empty sep: the pieces between the occurrences of
\* sep, scanned left to right, empty pieces included
split(s, sep) == SplitFrom(s, sep, 1, <<>>)

RECURSIVE join(_, _)
\* sep.join(toks)
join(sep, toks) ==
    IF toks = <<>> THEN <<>>
    ELSE IF Len(toks) = 1 THEN toks[1]
         ELSE toks[1] \o sep \o join(sep, Tail(toks))

RECURSIVE ReadLines(_, _)
ReadLines(text, cur) ==
    IF text = <<>> THEN (IF cur = <<>> THEN <<>> ELSE <<cur>>)
    ELSE IF Head(text) = NL
         THEN <<Append(cur, NL)>> \o ReadLines(Tail(text), <<>>)
         ELSE ReadLines(Tail(text), Append(cur, Head(text)))

\* iterating a file object: its lines, each with its line terminator
FileLines(text) == ReadLines(text, <<>>)

---------------------------------------------------------------------------
(* Floats and their text form.  IsFloatStr and ParseFloat agree with       *)
(* float() on the tokens the streams of this model hold.                   *)

Digits == <<"0", "1", "2", "3", "4", "5", "6", "7", "8", "9">>

DigitVal(c) == CHOOSE v \in 0 .. 9 : Digits[v + 1] = c

IsDigit(c) == \E v \in 0 .. 9 : Digits[v + 1] = c

\* np.asarray(vals, dtype=np.str): a whole float v is written "v.0"
FloatStr(v) == <<Digits[v + 1], ".", "0">>

\* float(tok) accepts, after stripping whitespace, a digit with an optional
\* "." and an optional "0" after it; anything else a ValueError
IsFloatStr(tok) ==
    LET t == strip(tok) IN
        /\ Len(t) \in 1 .. 3
        /\ IsDigit(t[1])
        /\ Len(t) >= 2 => t[2] = "."
        /\ Len(t) = 3 => t[3] = "0"

ParseFloat(tok) == DigitVal(strip(tok)[1])

---------------------------------------------------------------------------
(* ndarrays. *)

RECURSIVE Product(_)
Product(shape) ==
    IF shape = <<>> THEN 1 ELSE Head(shape) * Product(Tail(shape))

\* the element at row i, column j of a 2-dimensional array
At(d, i, j) == d.flat[(i - 1) * d.shape[2] + j]

\* d[i]: row i of a 2-dimensional array
RowOf(d, i) == SubSeq(d.flat, (i - 1) * d.shape[2] + 1, i * d.shape[2])

\* a cell np.empty() leaves unset
Uninit == -1

\* np.empty((n, n), dtype='float')
np_empty(n) == [shape |-> <<n, n>>, flat |-> [k \in 1 .. n * n |-> Uninit]]

\* data[i, :] = vals
SetRow(d, i, vals) ==
    [d EXCEPT !.flat = [k \in 1 .. Len(d.flat) |->
        IF (i - 1) * d.shape[2] < k /\ k <= i * d.shape[2]
        THEN vals[k - (i - 1) * d.shape[2]]
        ELSE d.flat[k]]]

\* d[i][j] == d[j][i] for every i, j
Symmetric(d) ==
    \A i, j \in 1 .. d.shape[1] : At(d, i, j) = At(d, j, i)

\* d[i][i] == 0 for every i
Hollow(d) == \A i \in 1 .. d.shape[1] : At(d, i, i) = 0

\* np.array_equal(a, b): the same shape and equal elements
array_equal(a, b) == a.shape = b.shape /\ a.flat = b.flat

---------------------------------------------------------------------------
(* Errors and results.  A call returns a record: exc names the exception   *)
(* raised ("" when the call returned), msg, row, expected and actual are   *)
(* what the exception's message carries, obj is the instance returned and  *)
(* val the bool returned ("True", "False").                                *)

NoArray == [shape |-> <<>>, flat |-> <<>>]

NoObj == [data |-> NoArray, sample_ids |-> <<>>, sample_index |-> <<>>]

Raise(exc, msg) ==
    [exc |-> exc, msg |-> msg, row |-> 0, expected |-> 0, actual |-> 0,
     obj |-> NoObj, val |-> ""]

\* a DistanceMatrix is returned
Return(obj) ==
    [exc |-> "", msg |-> "", row |-> 0, expected |-> 0, actual |-> 0,
     obj |-> obj, val |-> ""]

\* a bool is returned
ReturnBool(val) ==
    [exc |-> "", msg |-> "", row |-> 0, expected |-> 0, actual |-> 0,
     obj |-> NoObj, val |-> val]

SizeMsg == "Data must be at least 1x1 in size."
UniqueMsg == "Sample IDs must be unique."
StructureMsg == "Data must be an array that is 2-dimensional, square, symmetric, hollow, and contains only floating point values."
CountMsg == "The number of sample IDs must match the number of rows/columns in the data."
ExtraRowsMsg == "Encountered extra rows without corresponding sample IDs in the header."
RowCountMsg == "The number of values in row number %d is not equal to the number of sample IDs in the header."
MissingDataMsg == "Expected %d row(s) of data, but found %d."

\* (a variant that takes its arguments in the other order)
MissingDataErrorSwapped(actual, expected) ==
    [Raise("MissingDataError", MissingDataMsg) EXCEPT
        !.expected = actual, !.actual = expected]

\* MissingDataError.__init__(self, actual, expected): the message formats
\* (expected, actual) in this order
MissingDataError(actual, expected) ==
    [Raise("MissingDataError", MissingDataMsg) EXCEPT
        !.expected = expected, !.actual = actual]

\* DistanceMatrixFormatError naming a row: "... row number %d ..."
RowCountError(row) ==
    [Raise("DistanceMatrixFormatError", RowCountMsg) EXCEPT !.row = row]

---------------------------------------------------------------------------
(* DistanceMatrix: validation and construction. *)

\* scipy.spatial.distance.is_valid_dm(D), by the contract the caller relies
\* on: D is 2-dimensional, square, symmetric and has a zero diagonal
is_valid_dm(D) ==
    /\ Len(D.shape) = 2
    /\ D.shape[1] = D.shape[2]
    /\ \A i, j \in 1 .. D.shape[1] : At(D, i, j) = At(D, j, i)
    /\ \A i \in 1 .. D.shape[1] : At(D, i, i) = 0

\* len(set(sample_ids))
NumDistinct(sample_ids) ==
    Cardinality({sample_ids[k] : k \in 1 .. Len(sample_ids)})

\* (a variant that does not check the structure of the buffer)
validate_no_structure(data, sample_ids) ==
    LET num_sids == Len(sample_ids) IN
        IF \E k \in 1 .. Len(data.shape) : data.shape[k] = 0 THEN SizeMsg
        ELSE IF num_sids # NumDistinct(sample_ids) THEN UniqueMsg
        ELSE IF num_sids # data.shape[1] THEN CountMsg
        ELSE ""

\* (a variant that checks the structure before the labels' uniqueness)
validate_structure_first(data, sample_ids) ==
    LET num_sids == Len(sample_ids) IN
        IF \E k \in 1 .. Len(data.shape) : data.shape[k] = 0 THEN SizeMsg
        ELSE IF ~is_valid_dm(data) THEN StructureMsg
        ELSE IF num_sids # NumDistinct(sample_ids) THEN UniqueMsg
        ELSE IF num_sids # data.shape[1] THEN CountMsg
        ELSE ""

\* DistanceMatrix._validate: "" when it returns, else the message of the
\* DistanceMatrixError it raises
validate(data, sample_ids) ==
    LET num_sids == Len(sample_ids) IN
        IF \E k \in 1 .. Len(data.shape) : data.shape[k] = 0 THEN SizeMsg
        ELSE IF num_sids # NumDistinct(sample_ids) THEN UniqueMsg
        ELSE IF ~is_valid_dm(data) THEN StructureMsg
        ELSE IF num_sids # data.shape[1] THEN CountMsg
        ELSE ""

\* DistanceMatrix._index_list: {id_: idx for idx, id_ in enumerate(list_)}
\* (a later duplicate overwrites an earlier one)
index_list(list_) ==
    [id_ \in {list_[k] : k \in 1 .. Len(list_)} |->
        CHOOSE idx \in 1 .. Len(list_) :
            /\ list_[idx] = id_
            /\ \A k \in 1 .. Len(list_) : list_[k] = id_ => k <= idx]

\* DistanceMatrix.__init__ on an array value: validate, then commit
construct(data, sample_ids) ==
    LET err == validate(data, sample_ids) IN
        IF err # "" THEN Raise("DistanceMatrixError", err)
        ELSE Return([data |-> data, sample_ids |-> sample_ids,
                     sample_index |-> index_list(sample_ids)])

---------------------------------------------------------------------------
(* The reader. *)

RECURSIVE ScanHeader(_, _)
\* the loop of _parse_sample_ids from line k on: the position of the first
\* line that, stripped, is neither empty nor starts with "#"; 0 if none
ScanHeader(lines, k) ==
    IF k > Len(lines) THEN 0
    ELSE LET line == strip(lines[k]) IN
             IF line # <<>> /\ ~startswith(line, <<"#">>) THEN k
             ELSE ScanHeader(lines, k + 1)

\* DistanceMatrix._parse_sample_ids: the header's labels, and how many lines
\* of the stream it consumed
parse_sample_ids(lines, delimiter) ==
    LET h == ScanHeader(lines, 1) IN
        IF h = 0
        THEN [exc |-> "MissingHeaderError", sids |-> <<>>, pos |-> Len(lines)]
        ELSE [exc |-> "", sids |-> split(strip(lines[h]), delimiter), pos |-> h]

\* (a variant that also skips comment lines among the data rows)
IsBlankOrCommentLine(line) == line = <<>> \/ startswith(line, <<"#">>)

\* a line the loop of from_file skips: "if not line: continue"
IsBlankLine(line) == line = <<>>

RECURSIVE ReadRows(_, _, _, _, _, _)
\* the loop of from_file over the lines after position k, then its end
\* (curr_row_idx counts the rows filled, as in the source)
ReadRows(lines, k, delimiter, sids, curr_row_idx, data) ==
    LET num_sids == Len(sids) IN
    IF k >= Len(lines)
    THEN IF curr_row_idx # num_sids
         THEN MissingDataError(curr_row_idx, num_sids)
         ELSE construct(data, sids)
    ELSE
    LET line == strip(lines[k + 1]) IN
    IF IsBlankLine(line)
    THEN ReadRows(lines, k + 1, delimiter, sids, curr_row_idx, data)
    ELSE IF curr_row_idx >= num_sids
    THEN Raise("DistanceMatrixFormatError", ExtraRowsMsg)
    ELSE
    LET tokens == split(line, delimiter) IN
    IF Len(tokens) # num_sids + 1
    THEN RowCountError(curr_row_idx + 1)
    ELSE IF tokens[1] = sids[curr_row_idx + 1]
    THEN IF \A c \in 2 .. Len(tokens) : IsFloatStr(tokens[c])
         THEN ReadRows(lines, k + 1, delimiter, sids, curr_row_idx + 1,
                       SetRow(data, curr_row_idx + 1,
                              [c \in 1 .. num_sids |-> ParseFloat(tokens[c + 1])]))
         ELSE Raise("ValueError", "")
    ELSE Raise("SampleIDMismatchError", "")

\* DistanceMatrix.from_file(dm_f, delimiter) on the text of the stream
from_file(dm_f, delimiter) ==
    LET lines == FileLines(dm_f)
        hdr == parse_sample_ids(lines, delimiter)
    IN  IF hdr.exc # "" THEN Raise(hdr.exc, "")
        ELSE ReadRows(lines, hdr.pos, delimiter, hdr.sids, 0,
                      np_empty(Len(hdr.sids)))

---------------------------------------------------------------------------
(* The writer. *)

\* DistanceMatrix._format_sample_ids
format_sample_ids(sample_ids, delimiter) ==
    join(delimiter, <<<<>>>> \o sample_ids)

RECURSIVE WriteRows(_, _, _)
\* the loop of to_file over izip(sample_ids, data) from row i on
WriteRows(obj, delimiter, i) ==
    IF i > Len(obj.sample_ids) \/ i > obj.data.shape[1] THEN <<>>
    ELSE obj.sample_ids[i] \o delimiter
         \o join(delimiter, [c \in 1 .. obj.data.shape[2] |->
                                FloatStr(At(obj.data, i, c))])
         \o <<NL>>
         \o WriteRows(obj, delimiter, i + 1)

\* (a variant that writes no newline after the header)
to_file_no_header_newline(obj, delimiter) ==
    format_sample_ids(obj.sample_ids, delimiter) \o WriteRows(obj, delimiter, 1)

\* DistanceMatrix.to_file: everything written to out_f
to_file(obj, delimiter) ==
    format_sample_ids(obj.sample_ids, delimiter) \o <<NL>>
    \o WriteRows(obj, delimiter, 1)

---------------------------------------------------------------------------
(* Calls of the module's functions on inputs drawn from bounded sets. *)

\* no operation on an instance yet.  op names the operation, dm the
\* instance it was called on, new the instance it made (0: none), buf the
\* buffer written, data, sample_ids and label its arguments (data and
\* sample_ids of a constructor call are kept when it raises; when it returns
\* they are the new instance's), old the labels the instance had before
\* the call (for a lookup: before the replacement it follows, if it follows
\* one), exc and msg the exception raised, named the label the message
\* names, val the row returned
NoLast ==
    [op |-> "", dm |-> 0, new |-> 0, buf |-> 0, data |-> NoArray,
     sample_ids |-> <<>>, old |-> <<>>, label |-> <<>>, exc |-> "",
     msg |-> "", named |-> <<>>, val |-> <<>>]

\* no call has been made yet
NoRet == Raise("pending", "")

\* all sequences over S of lengths lo .. hi
SeqsOf(S, lo, hi) == UNION {[1 .. n -> S] : n \in lo .. hi}

\* the text of a stream with the given lines, each newline-terminated
TextOf(lines) ==
    IF lines = <<>> THEN <<>> ELSE join(<<NL>>, lines) \o <<NL>>

Comma == <<",">>
Tab == <<TAB>>
DoubleColon == <<":", ":">>

\* the fields of the lines a stream is made of: blank and whitespace-only
\* lines, headers, comment lines, well-formed and malformed data rows
LineFields ==
    { <<<<SP>>>>,
      <<<<>>, <<"a">>>>,
      <<<<"a">>, <<"#">>>>,
      <<<<"a">>, <<"0", ".", "0">>>>,
      <<<<"a">>, <<"1", ".", "0">>>>,
      <<<<"a">>, <<"x">>>>,
      <<<<"a">>, <<"0", ".", "0">>, <<"1", ".", "0">>>>,
      <<<<"#">>, <<"1", ".", "0">>, <<"0", ".", "0">>>>,
      <<<<"#">>, <<"1", ".", "0">>, <<"1", ".", "0">>>> }

ParseDelimiters == {Tab, Comma}

\* the calls of from_file on streams of up to n lines
ParseCalls(n) ==
    { [op |-> "from_file", self |-> NoObj,
       dm_f |-> TextOf([k \in 1 .. Len(fs) |-> join(d, fs[k])]),
       delimiter |-> d] :
        fs \in SeqsOf(LineFields, 0, n), d \in ParseDelimiters }

InitParse ==
    /\ bufs = <<>>
    /\ dms = <<>>
    /\ last = NoLast
    /\ call \in ParseCalls(MaxLines)
    /\ ret = NoRet

\* DistanceMatrix.from_file(dm_f, delimiter)
CallFromFile ==
    /\ call.op = "from_file"
    /\ ret = NoRet
    /\ ret' = from_file(call.dm_f, call.delimiter)
    /\ UNCHANGED <<bufs, dms, last, call>>

NextParse == CallFromFile

SpecParse == InitParse /\ [][NextParse]_vars

---------------------------------------------------------------------------
(* Equality.  The other operand is any object: attrs are the attributes it *)
(* has; shape and sample_ids are Python values (a tuple, a list or a numpy *)
(* array; a tuple and a list with the same items are not equal); data is   *)
(* an array.                                                               *)

PyTuple(items) == [type |-> "tuple", items |-> items]

PyList(items) == [type |-> "list", items |-> items]

\* a 1-dimensional numpy array of the items
PyArray(items) == [type |-> "ndarray", items |-> items]

\* the truth value "if x != y" tests, x a tuple: "True" or "False"; when y
\* is a numpy array, x != y is the array of the elementwise comparisons
\* (a single item is broadcast), and the truth value of an array that has
\* not exactly one element raises ValueError
ne_truth(x, y) ==
    IF y.type = "ndarray"
    THEN IF Len(x.items) = 1 /\ Len(y.items) = 1
         THEN (IF x.items[1] # y.items[1] THEN "True" ELSE "False")
         ELSE "ValueError"
    ELSE IF x # y THEN "True" ELSE "False"

\* a DistanceMatrix as an operand: its shape, sample_ids and data properties
AsObject(obj) ==
    [attrs |-> {"shape", "sample_ids", "data"},
     shape |-> PyTuple(obj.data.shape),
     sample_ids |-> PyTuple(obj.sample_ids),
     data |-> obj.data]

\* the try block of __eq__: "True" or "False", or the exception it raises:
\* AttributeError when it reads an attribute that other lacks, ValueError
\* when a comparison has no truth value
eq_try(self, other) ==
    IF "shape" \notin other.attrs THEN "AttributeError"
    ELSE IF ne_truth(self.shape, other.shape) = "ValueError" THEN "ValueError"
    ELSE IF ne_truth(self.shape, other.shape) = "True" THEN "False"
    ELSE IF "sample_ids" \notin other.attrs THEN "AttributeError"
    ELSE IF ne_truth(self.sample_ids, other.sample_ids) = "ValueError"
         THEN "ValueError"
    ELSE IF ne_truth(self.sample_ids, other.sample_ids) = "True" THEN "False"
    ELSE IF "data" \notin other.attrs THEN "AttributeError"
    ELSE IF ~array_equal(self.data, other.data) THEN "False"
    ELSE "True"

\* DistanceMatrix.__eq__: the try block, with AttributeError caught
eq(self, other) ==
    IF eq_try(self, other) = "AttributeError" THEN "False"
    ELSE eq_try(self, other)

\* DistanceMatrix.__ne__: not self == other
ne(self, other) ==
    IF eq(self, other) \notin {"True", "False"} THEN eq(self, other)
    ELSE IF eq(self, other) = "True" THEN "False" ELSE "True"

---------------------------------------------------------------------------
(* Writing a matrix and reading it back. *)

\* the k-th plain label: "s1", "s2", ...
PlainLabel(k) == <<"s", Digits[k + 1]>>

\* labels that are empty, start with "#", start or end with whitespace, or
\* hold a delimiter
SpecialLabels ==
    { <<>>, <<"#", "c">>, <<SP, "d">>, <<"e", SP>>, <<"x", TAB, "y">>,
      <<"x", ",", "y">> }

\* the tuples of n pairwise distinct labels written: the plain labels, and
\* the plain labels with a special label in any one place
LabelTuples(n) ==
    LET plain == [k \in 1 .. n |-> PlainLabel(k)] IN
        {plain} \cup { [plain EXCEPT ![k] = l] : k \in 1 .. n, l \in SpecialLabels }

\* the tuples of n pairwise distinct labels over S
DistinctTuples(S, n) ==
    {t \in [1 .. n -> S] : \A i, j \in 1 .. n : i # j => t[i] # t[j]}

\* the n x n symmetric hollow arrays over Values
HollowArrays(n) ==
    LET Pairs == {p \in (1 .. n) \X (1 .. n) : p[1] < p[2]} IN
        { [shape |-> <<n, n>>,
           flat |-> [k \in 1 .. n * n |->
               LET i == ((k - 1) \div n) + 1
                   j == ((k - 1) % n) + 1
               IN  IF i = j THEN 0
                   ELSE IF i < j THEN u[<<i, j>>] ELSE u[<<j, i>>]]] :
            u \in [Pairs -> Values] }

RoundTripDelimiters == {Tab, Comma, DoubleColon}

\* the matrices written: DistanceMatrix(d, ids) for each valid d and ids
RoundTripMatrices(n) ==
    { construct(d, ids).obj :
        d \in HollowArrays(n), ids \in LabelTuples(n) }

\* the calls of to_file on matrices of up to maxN samples
RoundTripCalls(maxN) ==
    { [op |-> "to_file", self |-> m, dm_f |-> <<>>, delimiter |-> sep] :
        m \in UNION {RoundTripMatrices(n) : n \in 1 .. maxN},
        sep \in RoundTripDelimiters }

InitRoundTrip ==
    /\ bufs = <<>>
    /\ dms = <<>>
    /\ last = NoLast
    /\ call \in RoundTripCalls(MaxN)
    /\ ret = NoRet

\* self.to_file(out_f, delimiter); out_f is then handed to from_file
CallToFile ==
    /\ call.op = "to_file"
    /\ call' = [call EXCEPT !.op = "from_file",
                            !.dm_f = to_file(call.self, call.delimiter)]
    /\ UNCHANGED <<bufs, dms, last, ret>>

NextRoundTrip == CallToFile \/ CallFromFile

SpecRoundTrip == InitRoundTrip /\ [][NextRoundTrip]_vars

\* s contains sub
Contains(s, sub) ==
    \E i \in 1 .. Len(s) - Len(sub) + 1 : SubSeq(s, i, i + Len(sub) - 1) = sub

\* labels the text format can carry: none is empty, holds the delimiter or
\* a newline, or starts or ends with whitespace, and the first does not
\* start with "#"
Writable(sample_ids, delimiter) ==
    /\ \A k \in 1 .. Len(sample_ids) :
        LET l == sample_ids[k] IN
            /\ l # <<>>
            /\ ~Contains(l, delimiter)
            /\ ~Contains(l, <<NL>>)
            /\ l[1] \notin Whitespace
            /\ l[Len(l)] \notin Whitespace
    /\ sample_ids[1][1] # "#"

\* the matrix read back is equal to the matrix written
ReadBackEqual ==
    /\ ret.exc = ""
    /\ eq(AsObject(call.self), AsObject(ret.obj)) = "True"
    /\ ret.obj.data.shape = call.self.data.shape
    /\ ret.obj.sample_ids = call.self.sample_ids
    /\ ret.obj.data.flat = call.self.data.flat

RoundTripDone == call.self # NoObj /\ call.op = "from_file" /\ ret # NoRet

C2_RoundTripOtherDelimiters ==
    (RoundTripDone /\ call.delimiter # Tab
        /\ Writable(call.self.sample_ids, call.delimiter)) => ReadBackEqual

---------------------------------------------------------------------------
(* Validation on arrays of every shape. *)

\* the largest dimension of the arrays given to the constructor
MaxDim == 2

\* labels of the matrices built in memory
Labels == {<<"a">>, <<"b">>}

\* the arrays of a shape, over the values vals
ArraysOver(shape, vals) ==
    { [shape |-> shape, flat |-> f] : f \in [1 .. Product(shape) -> vals] }

\* the arrays of a shape with entries 0.0 and 1.0
ArraysOf(shape) == ArraysOver(shape, {0, 1})

\* 0-, 1- and 2-dimensional shapes, zero-length dimensions included
Shapes(n) ==
    {<<>>} \cup {<<k>> : k \in 0 .. n}
           \cup {<<r, c>> : r \in 0 .. n, c \in 0 .. n}

\* the constructor calls on arrays of dimensions up to n
ValidateCalls(n) ==
    { [op |-> "construct", data |-> d, sample_ids |-> ids] :
        d \in UNION {ArraysOf(sh) : sh \in Shapes(n)},
        ids \in SeqsOf(Labels, 0, n + 1) }

InitValidate ==
    /\ bufs = <<>>
    /\ dms = <<>>
    /\ last = NoLast
    /\ call \in ValidateCalls(MaxDim)
    /\ ret = NoRet

\* DistanceMatrix(data, sample_ids)
CallConstruct ==
    /\ call.op = "construct"
    /\ ret = NoRet
    /\ ret' = construct(call.data, call.sample_ids)
    /\ UNCHANGED <<bufs, dms, last, call>>

NextValidate == CallConstruct

SpecValidate == InitValidate /\ [][NextValidate]_vars

\* the k-th condition of validation fails: 1 size, 2 label uniqueness,
\* 3 structure, 4 label count
Fails(k, data, sample_ids) ==
    LET sh == data.shape IN
    CASE k = 1 -> \E i \in 1 .. Len(sh) : sh[i] = 0
      [] k = 2 -> \E i, j \in 1 .. Len(sample_ids) :
                      i # j /\ sample_ids[i] = sample_ids[j]
      [] k = 3 -> ~(/\ Len(sh) = 2
                    /\ sh[1] = sh[2]
                    /\ Symmetric(data)
                    /\ Hollow(data))
      [] k = 4 -> Len(sh) = 0 \/ Len(sample_ids) # sh[1]

ConditionMsg == <<SizeMsg, UniqueMsg, StructureMsg, CountMsg>>

ReportsFirstFailure(r, data, sample_ids) ==
    LET failing == {k \in 1 .. 4 : Fails(k, data, sample_ids)} IN
        IF failing = {} THEN r.exc = ""
        ELSE /\ r.exc = "DistanceMatrixError"
             /\ r.obj = NoObj
             /\ \E k \in failing :
                 /\ \A j \in failing : k <= j
                 /\ r.msg = ConditionMsg[k]

---------------------------------------------------------------------------
(* Equality on any operand. *)

\* the matrices built in memory: DistanceMatrix(d, ids), up to 2x2
Matrices ==
    UNION { { construct(d, ids).obj :
                d \in HollowArrays(n), ids \in DistinctTuples(Labels, n) } :
            n \in 1 .. 2 }

\* operands: objects with any of the three attributes, holding tuples,
\* lists or numpy arrays, and buffers that are or are not distance matrices
Operands ==
    { [attrs |-> at, shape |-> sh, sample_ids |-> ids, data |-> d] :
        at \in SUBSET {"shape", "sample_ids", "data"},
        sh \in {PyTuple(<<1, 1>>), PyTuple(<<2, 2>>), PyList(<<2, 2>>)},
        ids \in UNION { {PyTuple(t), PyList(t), PyArray(t)} :
                        t \in DistinctTuples(Labels, 1) \cup DistinctTuples(Labels, 2) },
        d \in HollowArrays(1) \cup HollowArrays(2)
              \cup {[shape |-> <<2, 2>>, flat |-> <<0, 1, 0, 0>>]} }

EqCalls ==
    { [op |-> o, self |-> AsObject(m), other |-> b] :
        o \in {"eq", "ne"}, m \in Matrices,
        b \in Operands \cup {AsObject(x) : x \in Matrices} }

InitEq ==
    /\ bufs = <<>>
    /\ dms = <<>>
    /\ last = NoLast
    /\ call \in EqCalls
    /\ ret = NoRet

\* the outcome of a comparison as a result: a bool, or the exception
BoolResult(v) ==
    IF v \in {"True", "False"} THEN ReturnBool(v) ELSE Raise(v, "")

\* self == other
CallEq ==
    /\ call.op = "eq"
    /\ ret = NoRet
    /\ ret' = BoolResult(eq(call.self, call.other))
    /\ UNCHANGED <<bufs, dms, last, call>>

\* self != other
CallNe ==
    /\ call.op = "ne"
    /\ ret = NoRet
    /\ ret' = BoolResult(ne(call.self, call.other))
    /\ UNCHANGED <<bufs, dms, last, call>>

NextEq == CallEq \/ CallNe

SpecEq == InitEq /\ [][NextEq]_vars

\* b exposes shape, sample_ids and data, equal to a's (equal as Python
\* compares them: a != b is not true)
SameSurface(a, b) ==
    /\ {"shape", "sample_ids", "data"} \subseteq b.attrs
    /\ ne_truth(a.shape, b.shape) = "False"
    /\ ne_truth(a.sample_ids, b.sample_ids) = "False"
    /\ b.data.shape = a.data.shape
    /\ \A k \in 1 .. Len(a.data.flat) : b.data.flat[k] = a.data.flat[k]

\* C8: a == b never raises; it is true exactly when b exposes shape,
\* sample_ids and data equal to a's (labels in the same order, every buffer
\* element equal), false when b lacks any of them; a != b is its negation.
C8_EqualityTotalAndExact ==
    (call.op \in {"eq", "ne"} /\ ret # NoRet) =>
        /\ ret.exc = ""
        /\ ret.val \in {"True", "False"}
        /\ call.op = "eq" => (ret.val = "True" <=> SameSurface(call.self, call.other))
        /\ call.op = "ne" => (ret.val = "False" <=> SameSurface(call.self, call.other))

---------------------------------------------------------------------------
(* Instances in memory.  An instance holds the identity of its buffer, so  *)
(* that two instances can share one ndarray; copy_of (the instance copy()  *)
(* made it from) is history, not a field of the class.                     *)

MissingSampleIDMsg == "The sample ID '%s' is not in the distance matrix."

\* __init__, lines 214-216: commit the buffer and the labels, build the index
new_instance(b, sample_ids) ==
    [data |-> b, sample_ids |-> sample_ids,
     sample_index |-> index_list(sample_ids), copy_of |-> 0]

\* (a variant that assigns the labels before it validates them)
set_sample_ids_commit_first(dm, data, sample_ids_) ==
    [msg |-> validate(data, sample_ids_),
     dm |-> [dm EXCEPT !.sample_ids = sample_ids_,
                       !.sample_index = index_list(sample_ids_)]]

\* (a variant that does not rebuild the index)
set_sample_ids_stale_index(dm, data, sample_ids_) ==
    LET err == validate(data, sample_ids_) IN
        IF err # "" THEN [msg |-> err, dm |-> dm]
        ELSE [msg |-> "", dm |-> [dm EXCEPT !.sample_ids = sample_ids_]]

\* the sample_ids setter on instance dm, whose buffer holds data: the
\* exception message ("" when it returns) and the instance afterwards
set_sample_ids(dm, data, sample_ids_) ==
    LET err == validate(data, sample_ids_) IN
        IF err # "" THEN [msg |-> err, dm |-> dm]
        ELSE [msg |-> "",
              dm |-> [dm EXCEPT !.sample_ids = sample_ids_,
                                !.sample_index = index_list(sample_ids_)]]

\* __getitem__ with a string index on instance dm, whose buffer holds data
getitem(dm, data, index) ==
    IF index \in DOMAIN dm.sample_index
    THEN [exc |-> "", msg |-> "", named |-> <<>>,
          val |-> RowOf(data, dm.sample_index[index])]
    ELSE [exc |-> "MissingSampleIDError", msg |-> MissingSampleIDMsg,
          named |-> index, val |-> <<>>]

\* (a variant that hands the buffer itself to the constructor)
copy_data_shared(heap, b) == b

\* the identity of the array self.data.copy() returns: a new one
copy_data(heap, b) == Len(heap) + 1

\* the arrays callers build and hand to the constructor
CoreArrays ==
    UNION {ArraysOver(sh, {0, 1}) : sh \in {<<0, 0>>, <<1, 1>>, <<1, 2>>, <<2, 2>>}}

\* the label sequences callers pass
CoreIds == SeqsOf(Labels, 0, 2)

\* the streams callers parse (tab-delimited)
CoreTexts ==
    { TextOf([k \in 1 .. Len(fs) |-> join(Tab, fs[k])]) : fs \in
        { <<>>,
          << <<<<>>, <<"a">>>>, <<<<"a">>, <<"0", ".", "0">>>> >>,
          << <<<<>>, <<"a">>>>, <<<<"a">>, <<"1", ".", "0">>>> >>,
          << <<<<>>, <<"a">>, <<"b">>>>,
             <<<<"a">>, <<"0", ".", "0">>, <<"1", ".", "0">>>>,
             <<<<"b">>, <<"1", ".", "0">>, <<"0", ".", "0">>>> >> } }

InitCore ==
    /\ bufs = <<>>
    /\ dms = <<>>
    /\ last = NoLast
    /\ call = [op |-> ""]
    /\ ret = NoRet

\* DistanceMatrix(data, sample_ids) on an array the caller has just built
Construct(data, sample_ids) ==
    /\ Len(dms) < MaxInst
    /\ LET err == validate(data, sample_ids) IN
        IF err # ""
        THEN /\ last' = [NoLast EXCEPT !.op = "construct", !.data = data,
                            !.sample_ids = sample_ids,
                            !.exc = "DistanceMatrixError", !.msg = err]
             /\ UNCHANGED <<bufs, dms>>
        ELSE /\ bufs' = Append(bufs, data)
             /\ dms' = Append(dms, new_instance(Len(bufs) + 1, sample_ids))
             /\ last' = [NoLast EXCEPT !.op = "construct", !.new = Len(dms) + 1]
    /\ UNCHANGED <<call, ret>>

\* DistanceMatrix(m.data, sample_ids): np.asarray makes no copy of a float
\* ndarray, so the new instance shares the buffer of instance i
ConstructShared(i, sample_ids) ==
    /\ Len(dms) < MaxInst
    /\ LET b == dms[i].data
           err == validate(bufs[b], sample_ids)
       IN
        IF err # ""
        THEN /\ last' = [NoLast EXCEPT !.op = "construct", !.data = bufs[b],
                            !.sample_ids = sample_ids,
                            !.exc = "DistanceMatrixError", !.msg = err]
             /\ UNCHANGED dms
        ELSE /\ dms' = Append(dms, new_instance(b, sample_ids))
             /\ last' = [NoLast EXCEPT !.op = "construct", !.new = Len(dms) + 1]
    /\ UNCHANGED <<bufs, call, ret>>

\* DistanceMatrix.from_file(dm_f) on a stream
FromFile(dm_f) ==
    /\ Len(dms) < MaxInst
    /\ LET r == from_file(dm_f, Tab) IN
        IF r.exc # ""
        THEN /\ last' = [NoLast EXCEPT !.op = "from_file", !.exc = r.exc,
                            !.msg = r.msg]
             /\ UNCHANGED <<bufs, dms>>
        ELSE /\ bufs' = Append(bufs, r.obj.data)
             /\ dms' = Append(dms, new_instance(Len(bufs) + 1, r.obj.sample_ids))
             /\ last' = [NoLast EXCEPT !.op = "from_file", !.new = Len(dms) + 1]
    /\ UNCHANGED <<call, ret>>

\* dms[i].copy(): self.__class__(self.data.copy(), deepcopy(self.sample_ids))
Copy(i) ==
    /\ Len(dms) < MaxInst
    /\ LET src == dms[i].data
           b == copy_data(bufs, src)
           err == validate(bufs[src], dms[i].sample_ids)
       IN
        IF err # ""
        THEN /\ last' = [NoLast EXCEPT !.op = "copy", !.dm = i,
                            !.exc = "DistanceMatrixError", !.msg = err]
             /\ UNCHANGED <<bufs, dms>>
        ELSE /\ bufs' = IF b > Len(bufs) THEN Append(bufs, bufs[src]) ELSE bufs
             /\ dms' = Append(dms, [new_instance(b, dms[i].sample_ids)
                                      EXCEPT !.copy_of = i])
             /\ last' = [NoLast EXCEPT !.op = "copy", !.dm = i,
                            !.new = Len(dms) + 1]
    /\ UNCHANGED <<call, ret>>

\* dms[i].sample_ids = sample_ids_
SetSampleIds(i, sample_ids_) ==
    /\ LET r == set_sample_ids(dms[i], bufs[dms[i].data], sample_ids_) IN
        /\ dms' = [dms EXCEPT ![i] = r.dm]
        /\ last' = [NoLast EXCEPT !.op = "set_sample_ids", !.dm = i,
                       !.sample_ids = sample_ids_,
                       !.old = dms[i].sample_ids,
                       !.exc = IF r.msg = "" THEN "" ELSE "DistanceMatrixError",
                       !.msg = r.msg]
    /\ UNCHANGED <<bufs, call, ret>>

\* dms[i][index] with a string index
GetItem(i, index) ==
    /\ LET r == getitem(dms[i], bufs[dms[i].data], index) IN
        last' = [NoLast EXCEPT !.op = "getitem", !.dm = i, !.label = index,
                    !.old = IF last.op = "set_sample_ids" /\ last.dm = i
                                /\ last.exc = ""
                            THEN last.old ELSE <<>>,
                    !.exc = r.exc, !.msg = r.msg, !.named = r.named,
                    !.val = r.val]
    /\ UNCHANGED <<bufs, dms, call, ret>>

\* m.data[...] = v by a caller: the data property returns the buffer itself
WriteData(b, k, v) ==
    /\ bufs' = [bufs EXCEPT ![b].flat[k] = v]
    /\ last' = [NoLast EXCEPT !.op = "write", !.buf = b]
    /\ UNCHANGED <<dms, call, ret>>

NextCore ==
    \/ \E data \in CoreArrays, ids \in CoreIds : Construct(data, ids)
    \/ \E i \in 1 .. Len(dms), ids \in CoreIds : ConstructShared(i, ids)
    \/ \E dm_f \in CoreTexts : FromFile(dm_f)
    \/ \E i \in 1 .. Len(dms) : Copy(i)
    \/ \E i \in 1 .. Len(dms), ids \in CoreIds : SetSampleIds(i, ids)
    \/ \E i \in 1 .. Len(dms), index \in Labels : GetItem(i, index)

\* constructor calls, parses, copies, label replacements and lookups
SpecCore == InitCore /\ [][NextCore]_vars

\* the arrays handed to the constructor by callers that later write into
\* them: a 1x1 and a 2x2 distance matrix
SharedArrays ==
    { [shape |-> <<1, 1>>, flat |-> <<0>>],
      [shape |-> <<2, 2>>, flat |-> <<0, 1, 1, 0>>] }

\* the label sequences these callers pass: for one sample, for two in both
\* orders, and one with a duplicate
SharedIds ==
    { <<<<"a">>>>, <<<<"a">>, <<"b">>>>, <<<<"b">>, <<"a">>>>,
      <<<<"a">>, <<"a">>>> }

NextShared ==
    \/ \E data \in SharedArrays, ids \in SharedIds : Construct(data, ids)
    \/ \E i \in 1 .. Len(dms), ids \in SharedIds : ConstructShared(i, ids)
    \/ \E i \in 1 .. Len(dms) : Copy(i)
    \/ \E i \in 1 .. Len(dms), ids \in SharedIds : SetSampleIds(i, ids)
    \/ \E b \in 1 .. Len(bufs) :
        \E k \in 1 .. bufs[b].shape[2], v \in {0, 1} : WriteData(b, k, v)

\* callers that also write into the first row of the buffers: the diagonal
\* entry of the row, and an entry off the diagonal
SpecShared == InitCore /\ [][NextShared]_vars

---------------------------------------------------------------------------
(* Properties of the instances in memory. *)

Distinct(ids) == \A i, j \in 1 .. Len(ids) : i # j => ids[i] # ids[j]

\* N >= 1, a square N x N symmetric hollow buffer, N distinct labels
InstanceValid(dm) ==
    LET d == bufs[dm.data]
        N == Len(dm.sample_ids)
    IN  /\ N >= 1
        /\ d.shape = <<N, N>>
        /\ Symmetric(d)
        /\ Hollow(d)
        /\ Distinct(dm.sample_ids)

\* a constructor call either adds one instance or raises DistanceMatrixError
\* and leaves the instances and buffers as they were
ConstructStep ==
    last'.op = "construct" =>
        IF last'.exc = ""
        THEN /\ last'.new = Len(dms) + 1
             /\ Len(dms') = Len(dms) + 1
             /\ SubSeq(dms', 1, Len(dms)) = dms
        ELSE /\ last'.exc = "DistanceMatrixError"
             /\ dms' = dms
             /\ bufs' = bufs

\* the input of a rejected constructor call violates a structural condition
RejectedInputInvalid ==
    (last.op = "construct" /\ last.exc # "") =>
        LET d == last.data IN
            \/ ~(Len(d.shape) = 2 /\ d.shape[1] = d.shape[2]
                 /\ d.shape[1] >= 1 /\ Symmetric(d) /\ Hollow(d))
            \/ ~Distinct(last.sample_ids)
            \/ Len(last.sample_ids) # d.shape[1]

SetterStep ==
    last'.op = "set_sample_ids" =>
        LET i == last'.dm
            ids == last'.sample_ids
        IN  /\ bufs' = bufs
            /\ \A j \in 1 .. Len(dms) : j # i => dms'[j] = dms[j]
            /\ Len(dms') = Len(dms)
            /\ IF Distinct(ids) /\ Len(ids) = bufs[dms[i].data].shape[1]
               THEN /\ last'.exc = ""
                    /\ dms'[i].sample_ids = ids
                    /\ DOMAIN dms'[i].sample_index = {ids[k] : k \in 1 .. Len(ids)}
                    /\ \A k \in 1 .. Len(ids) : dms'[i].sample_index[ids[k]] = k
                    /\ dms'[i].data = dms[i].data
               ELSE /\ last'.exc = "DistanceMatrixError"
                    /\ dms' = dms

\* C4: a label replacement with duplicate labels or a wrong label count
\* raises DistanceMatrixError and leaves labels, index and buffer as they
\* were; a valid one replaces the labels and rebuilds the index together;
\* neither changes a buffer.
C4_LabelReplacementAtomic == [][SetterStep]_vars

\* a replacement with duplicate labels on a 2x2 instance was rejected and
\* the instance still has the labels it had
C4_Witness ==
    /\ last.op = "set_sample_ids"
    /\ last.exc = "DistanceMatrixError"
    /\ last.msg = UniqueMsg
    /\ Len(last.sample_ids) = 2
    /\ dms[last.dm].sample_ids = last.old
    /\ dms[last.dm].sample_index = index_list(last.old)

\* the lookup of a label on an instance gives row k of the buffer when the
\* label is its k-th current label, and else MissingSampleIDError naming it
LookupFollowsLabels(dm, index, r) ==
    IF \E k \in 1 .. Len(dm.sample_ids) : dm.sample_ids[k] = index
    THEN /\ r.exc = ""
         /\ \E k \in 1 .. Len(dm.sample_ids) :
             /\ dm.sample_ids[k] = index
             /\ r.val = RowOf(bufs[dm.data], k)
    ELSE /\ r.exc = "MissingSampleIDError"
         /\ r.msg = MissingSampleIDMsg
         /\ r.named = index

\* C5: after construction and any label replacements, M[sample_ids[i]] is
\* row i of the buffer and a lookup of any string that is not a current
\* label (one that was a label before a replacement too) raises
\* MissingSampleIDError naming it: the index maps exactly the current
\* labels to their positions.
C5_LookupFollowsCurrentLabels ==
    /\ \A i \in 1 .. Len(dms) :
        /\ DOMAIN dms[i].sample_index =
              {dms[i].sample_ids[k] : k \in 1 .. Len(dms[i].sample_ids)}
        /\ \A k \in 1 .. Len(dms[i].sample_ids) :
              dms[i].sample_index[dms[i].sample_ids[k]] = k
    /\ last.op = "getitem" => LookupFollowsLabels(dms[last.dm], last.label, last)

\* a label that was valid before a replacement was looked up after it
C5_Witness ==
    /\ last.op = "getitem"
    /\ last.exc = "MissingSampleIDError"
    /\ \E k \in 1 .. Len(last.old) : last.old[k] = last.label
    /\ last.named = last.label

\* what an instance exposes: its labels, its index and its buffer's content
Snapshot(ds, heap, i) ==
    [sample_ids |-> ds[i].sample_ids, sample_index |-> ds[i].sample_index,
     data |-> heap[ds[i].data]]

\* the step replaces the labels of instance i or writes into its buffer
Mutates(i) ==
    \/ last'.op = "set_sample_ids" /\ last'.dm = i
    \/ last'.op = "write" /\ last'.buf = dms[i].data

CopyStep ==
    (last'.op = "copy" /\ last'.exc = "") =>
        LET m == last'.dm
            c == last'.new
        IN  /\ c = Len(dms) + 1
            /\ dms'[c].copy_of = m
            /\ eq(AsObject(Snapshot(dms', bufs', m)),
                  AsObject(Snapshot(dms', bufs', c))) = "True"
            /\ Snapshot(dms', bufs', m) = Snapshot(dms, bufs, m)

CopyIndependent ==
    \A c \in 1 .. Len(dms) :
        LET m == dms[c].copy_of IN
            m # 0 =>
                /\ Mutates(c) => Snapshot(dms', bufs', m) = Snapshot(dms, bufs, m)
                /\ Mutates(m) => Snapshot(dms', bufs', c) = Snapshot(dms, bufs, c)

\* C9: right after c = M.copy(), c == M; afterwards label replacements on c
\* and writes into c's buffer leave M's labels, index and buffer unchanged,
\* and the same with M and c swapped.
C9_CopyIndependent == [][CopyStep /\ CopyIndependent]_vars

\* a write into the buffer of a copy has made it differ from its original
C9_Witness ==
    /\ last.op = "write"
    /\ \E c \in 1 .. Len(dms) :
        /\ dms[c].copy_of # 0
        /\ last.buf = dms[c].data
        /\ bufs[dms[c].data] # bufs[dms[dms[c].copy_of].data]
        /\ Len(dms[c].sample_ids) = 2

---------------------------------------------------------------------------
(* The structure of an input stream, stated over its lines. *)

RECURSIVE StripAll(_)
StripAll(lines) ==
    IF lines = <<>> THEN <<>>
    ELSE <<strip(Head(lines))>> \o StripAll(Tail(lines))

\* the stripped lines of a stream
StreamLines(text) == StripAll(FileLines(text))

\* the positions of the lines that are neither blank nor start with "#"
HeaderCandidates(ls) ==
    {k \in 1 .. Len(ls) : ls[k] # <<>> /\ ls[k][1] # "#"}

HeaderPos(ls) ==
    CHOOSE h \in HeaderCandidates(ls) : \A k \in HeaderCandidates(ls) : h <= k

RECURSIVE SplitAll(_, _)
SplitAll(lines, d) ==
    IF lines = <<>> THEN <<>>
    ELSE <<split(Head(lines), d)>> \o SplitAll(Tail(lines), d)

\* the fields of the non-blank lines after position h, in stream order
DataRows(ls, h, d) ==
    SplitAll(SelectSeq(SubSeq(ls, h + 1, Len(ls)), LAMBDA l : l # <<>>), d)

\* what is wrong with data row k under the header labels, by the order the
\* reader meets it; "" when the row is well-formed
RowViolation(labels, rows, k) ==
    LET N == Len(labels)
        f == rows[k]
    IN  IF k > N THEN "extra"
        ELSE IF Len(f) # N + 1 THEN "count"
        ELSE IF f[1] # labels[k] THEN "label"
        ELSE IF \E c \in 2 .. N + 1 : ~IsFloatStr(f[c]) THEN "value"
        ELSE ""

BadRows(labels, rows) ==
    {k \in 1 .. Len(rows) : RowViolation(labels, rows, k) # ""}

FirstBadRow(labels, rows) ==
    CHOOSE k \in BadRows(labels, rows) : \A j \in BadRows(labels, rows) : k <= j

\* r is a matrix made of exactly the rows under the labels
ReturnsRows(r, labels, rows) ==
    LET N == Len(labels) IN
        /\ Len(rows) = N
        /\ \A k \in 1 .. N :
            /\ Len(rows[k]) = N + 1
            /\ rows[k][1] = labels[k]
            /\ RowOf(r.obj.data, k) = [c \in 1 .. N |-> ParseFloat(rows[k][c + 1])]
        /\ r.obj.sample_ids = labels
        /\ r.obj.data.shape = <<N, N>>
        /\ N >= 1
        /\ Symmetric(r.obj.data)
        /\ Hollow(r.obj.data)
        /\ NumDistinct(labels) = N

ReturnsOnlyComplete(r, ls, d) ==
    /\ r.exc = "" =>
        /\ HeaderCandidates(ls) # {}
        /\ ReturnsRows(r, split(ls[HeaderPos(ls)], d), DataRows(ls, HeaderPos(ls), d))
    /\ r.exc # "" => r.obj = NoObj

\* C6: from_file returns a matrix only if, after the header (the first line
\* that is neither blank nor starts with "#") with N labels, the stream holds
\* exactly N non-blank lines, the k-th with N+1 fields and the k-th header
\* label as its leading field, and the buffer they give is a valid distance
\* matrix; the matrix returned has the header's labels in header order and
\* the k-th line's N values as row k.  Otherwise it raises and returns none.
C6_ParserReturnsOnlyCompleteInput ==
    (call.op = "from_file" /\ ret # NoRet) =>
        ReturnsOnlyComplete(ret, StreamLines(call.dm_f), call.delimiter)

\* a 2x2 matrix was returned from a stream with a line starting with "#"
\* before the header and a data row starting with "#" after it
C6_Witness ==
    /\ call.op = "from_file"
    /\ ret.exc = ""
    /\ ret.obj.sample_ids = <<<<"a">>, <<"#">>>>
    /\ ret.obj.data.flat = <<0, 1, 1, 0>>
    /\ Len(FileLines(call.dm_f)) = 4
    /\ Head(call.dm_f) = "#"

ClassifiedRows(r, labels, rows) ==
    IF BadRows(labels, rows) # {}
    THEN LET k == FirstBadRow(labels, rows)
             v == RowViolation(labels, rows, k)
         IN
            /\ v = "extra" =>
                /\ r.exc = "DistanceMatrixFormatError"
                /\ r.msg = ExtraRowsMsg
            /\ v = "count" =>
                /\ r.exc = "DistanceMatrixFormatError"
                /\ r.msg = RowCountMsg
                /\ r.row = k
            /\ v = "label" => r.exc = "SampleIDMismatchError"
    ELSE Len(rows) < Len(labels) =>
            /\ r.exc = "MissingDataError"
            /\ r.expected = Len(labels)
            /\ r.actual = Len(rows)

Classified(r, ls, d) ==
    IF HeaderCandidates(ls) = {} THEN r.exc = "MissingHeaderError"
    ELSE ClassifiedRows(r, split(ls[HeaderPos(ls)], d),
                        DataRows(ls, HeaderPos(ls), d))

\* C7: the reader's errors are classified by the first violation in stream
\* order: no header line, MissingHeaderError; a non-blank line after N rows
\* are filled, the extra-rows DistanceMatrixFormatError; a field count other
\* than N+1, DistanceMatrixFormatError naming the 1-based number of that
\* data row (blank lines not counted); a leading field that is not the
\* header label of that position, SampleIDMismatchError; the stream ending
\* with k < N rows filled, MissingDataError with expected N and actual k.
C7_ParserErrorsByFirstViolation ==
    (call.op = "from_file" /\ ret # NoRet) =>
        Classified(ret, StreamLines(call.dm_f), call.delimiter)

\* the second data row, after a blank line, had the wrong number of fields
C7_Witness ==
    /\ call.op = "from_file"
    /\ ret.exc = "DistanceMatrixFormatError"
    /\ ret.row = 2
    /\ \E k \in 2 .. Len(FileLines(call.dm_f)) - 1 :
        strip(FileLines(call.dm_f)[k]) = <<>>

====
